---- MODULE Spec2Model ----
(***************************************************************************)
(* Session Manager (AuthProvider) and Access Router (AppNavigator) of the  *)
(* appointment-scheduling client.  Every await of the provider's async     *)
(* functions is a suspension point, so each function is a chain of         *)
(* actions; functions in flight interleave at those points.                *)
(***************************************************************************)
EXTENDS Bags, FiniteSets, Integers, Sequences, TLC

\* the provider
VARIABLES user, loading, store, restore, regUsers, calls, started, last, boot

\* AppointmentForm
VARIABLES selectedDoctor, dateInput, selectedTime, description, presses,
          onSubmitCalls, lastPress

\* NotificationBell, with the provider above it or not, and TimeSlotList
VARIABLES provided, hookResult, unreadCount, loads, serviceCalls, pending,
          onSelectTimeArg

authVars ==
  <<user, loading, store, restore, regUsers, calls, started, last, boot>>

formVars ==
  <<selectedDoctor, dateInput, selectedTime, description, presses,
    onSubmitCalls, lastPress>>

bellVars ==
  <<provided, hookResult, unreadCount, loads, serviceCalls, pending,
    onSelectTimeArg>>

\* the state of the components
ui == <<formVars, bellVars>>

vars == <<authVars, ui>>

(* ---------------------------- bounds ----------------------------------- *)

\* most provider calls made in one behaviour
MaxCalls == 2

\* most process restarts in one behaviour
MaxBoots == 1

\* most presses of the form's submit button in one behaviour
MaxPresses == 2

\* most loadUnreadCount calls of the bell in one behaviour
MaxLoads == 2

(* ---------------------------- values ----------------------------------- *)

\* useState<User | null>(null)
Null == [absent |-> TRUE]

mkUser(i, r, n) == [id |-> i, role |-> r, name |-> n]

\* the roles the navigator tests for
KnownRoles == {"admin", "doctor", "patient"}

\* User values that reach the provider at run time; "nurse" is a role string
\* outside the three the navigator tests for
Identities ==
  { mkUser("u1", "admin", "Ana"),
    mkUser("u1", "admin", "Ana M."),
    mkUser("u1", "doctor", "Ana"),
    mkUser("u2", "patient", "Bia"),
    mkUser("u3", "nurse", "Caio") }

\* the accounts the gateway knows: what authService.signIn and
\* authService.register resolve with, a user and the token issued for it
Responses ==
  { [user |-> mkUser("u1", "admin", "Ana"), token |-> "t1"],
    [user |-> mkUser("u1", "doctor", "Ana"), token |-> "t2"],
    [user |-> mkUser("u2", "patient", "Bia"), token |-> "t3"],
    [user |-> mkUser("u3", "nurse", "Caio"), token |-> "t4"] }

NoResp == [user |-> Null, token |-> ""]

\* errors the gateway rejects signIn / register with
AuthErrors == {"invalid credentials", "email in use"}

\* error the gateway rejects signOut with
SignOutErrors == {"network"}

\* error AsyncStorage rejects a write or a removal with, and the error of a
\* failed read
StoreErrors == {"storage failure"}

NoErr == "none"

STORAGE_KEYS == [USER |-> "@MedicalApp:user", TOKEN |-> "@MedicalApp:token"]

(* --------------------------- Credential Store -------------------------- *)

\* JSON.stringify(user): the object's members in order, as text fields
Serialize(u) == <<"id", u.id, "role", u.role, "name", u.name>>

\* JSON.parse of a stored user
Deserialize(s) == [id |-> s[2], role |-> s[4], name |-> s[6]]

\* AsyncStorage.setItem(key, value), when it succeeds
SetItem(s, key, value) ==
  [k \in (DOMAIN s) \cup {key} |-> IF k = key THEN value ELSE s[k]]

\* AsyncStorage.removeItem(key), when it succeeds
RemoveItem(s, key) == [k \in (DOMAIN s) \ {key} |-> s[k]]

HasItem(s, key) == key \in DOMAIN s

EmptyStore == [k \in {} |-> ""]

\* authService.getStoredUser(), when it does not throw: the stored user
\* parsed, or null when nothing is stored
GetStoredUser(s) ==
  IF HasItem(s, STORAGE_KEYS.USER) THEN Deserialize(s[STORAGE_KEYS.USER])
  ELSE Null

(* ---------------------------- Access Router ---------------------------- *)

CommonScreens ==
  <<"Home", "CreateAppointment", "Profile", "EditProfile", "Notifications",
    "Settings">>

\* AppNavigator with the loading test placed inside the public branch only
Screens_LoadingOnlyWhenSignedOut(u, l) ==
  IF u = Null THEN (IF l THEN <<>> ELSE <<"Login", "Register">>)
  ELSE (IF u.role = "admin" THEN <<"AdminDashboard">> ELSE <<>>)
       \o (IF u.role = "doctor" THEN <<"DoctorDashboard">> ELSE <<>>)
       \o (IF u.role = "patient" THEN <<"PatientDashboard">> ELSE <<>>)
       \o <<"Home", "CreateAppointment", "Profile", "EditProfile",
            "Notifications", "Settings">>

\* AppNavigator with Home also among the public routes
Screens_PublicHome(u, l) ==
  IF l THEN <<>>
  ELSE IF u = Null THEN <<"Home", "Login", "Register">>
  ELSE (IF u.role = "admin" THEN <<"AdminDashboard">> ELSE <<>>)
       \o (IF u.role = "doctor" THEN <<"DoctorDashboard">> ELSE <<>>)
       \o (IF u.role = "patient" THEN <<"PatientDashboard">> ELSE <<>>)
       \o <<"Home", "CreateAppointment", "Profile", "EditProfile",
            "Notifications", "Settings">>

\* AppNavigator with the doctor's dashboard rendered without its role test
Screens_DoctorDashboardForAll(u, l) ==
  IF l THEN <<>>
  ELSE IF u = Null THEN <<"Login", "Register">>
  ELSE (IF u.role = "admin" THEN <<"AdminDashboard">> ELSE <<>>)
       \o <<"DoctorDashboard">>
       \o (IF u.role = "patient" THEN <<"PatientDashboard">> ELSE <<>>)
       \o <<"Home", "CreateAppointment", "Profile", "EditProfile",
            "Notifications", "Settings">>

\* AppNavigator without the early return on loading
Screens_NoLoadingReturn(u, l) ==
  IF u = Null THEN <<"Login", "Register">>
  ELSE (IF u.role = "admin" THEN <<"AdminDashboard">> ELSE <<>>)
       \o (IF u.role = "doctor" THEN <<"DoctorDashboard">> ELSE <<>>)
       \o (IF u.role = "patient" THEN <<"PatientDashboard">> ELSE <<>>)
       \o <<"Home", "CreateAppointment", "Profile", "EditProfile",
            "Notifications", "Settings">>

\* the Stack.Screen elements AppNavigator renders, in order; <<>> is the
\* null it returns while loading
Screens(u, l) ==
  IF l THEN <<>>
  ELSE IF u = Null THEN <<"Login", "Register">>
  ELSE (IF u.role = "admin" THEN <<"AdminDashboard">> ELSE <<>>)
       \o (IF u.role = "doctor" THEN <<"DoctorDashboard">> ELSE <<>>)
       \o (IF u.role = "patient" THEN <<"PatientDashboard">> ELSE <<>>)
       \o CommonScreens

Range(s) == {s[i] : i \in DOMAIN s}

ReachableSet(u, l) == Range(Screens(u, l))

\* the navigator opens on its first screen; "Booting" when it renders none
InitialDestination(u, l) ==
  IF Screens(u, l) = <<>> THEN "Booting" ELSE Head(Screens(u, l))

\* provider functions are called from screens, and a screen exists only
\* once the navigator renders one
ScreensRendered == ReachableSet(user, loading) # {}

(* ------------------------- calls in flight ----------------------------- *)

Call(op, pc, resp) == [op |-> op, pc |-> pc, resp |-> resp]

One(r) == SetToBag({r})

InFlight == BagToSet(calls)

CanCall == ScreensRendered /\ started < MaxCalls

\* the call r moves on to its next await
Advance(r, r2) == calls' = (calls (-) One(r)) (+) One(r2)

\* how a call ended: the await it ended at, the error its catch block caught
\* (NoErr when it ran to its end) and the promise the caller holds, resolved
\* or rejected with err
Ended(op, at, caught, outcome, err) ==
  [op |-> op, at |-> at, caught |-> caught, outcome |-> outcome, err |-> err]

NoLast == Ended("none", "none", NoErr, "none", NoErr)

\* the call r settles
Settle(r, caught, outcome, err) ==
  /\ calls' = calls (-) One(r)
  /\ last' = Ended(r.op, r.pc, caught, outcome, err)

(* ------------------------------ useAuth ------------------------------- *)

\* a member that an object does not have, and a variable never assigned
Undefined == [undefined |-> TRUE]

\* createContext<AuthContextData>({} as AuthContextData): the value a
\* consumer reads when no provider is above it, an object with no members
DefaultContext == [k \in {} |-> Undefined]

\* JavaScript truthiness of an object, null or undefined
Truthy(v) == v # Null /\ v # Undefined

\* obj.k
Member(obj, k) == IF k \in DOMAIN obj THEN obj[k] ELSE Undefined

\* useContext(AuthContext): the value of the provider above the component
\* (its user and loading; the four functions are the actions of the
\* provider), the default when there is none
UseContext(p, u, l) ==
  IF p THEN [user |-> u, loading |-> l] ELSE DefaultContext

\* what a hook call did: threw an Error with that message, or returned
Threw(message) == [threw |-> message, returned |-> Undefined]

Returned(value) == [threw |-> NoErr, returned |-> value]

NotRendered == [threw |-> NoErr, returned |-> Null]

\* useAuth: throws when the context is falsy, returns it otherwise
useAuth(p, u, l) ==
  IF ~Truthy(UseContext(p, u, l))
  THEN Threw("useAuth must be used within an AuthProvider")
  ELSE Returned(UseContext(p, u, l))

(* --------------------------- text and dates ---------------------------- *)

Digits == <<"0", "1", "2", "3", "4", "5", "6", "7", "8", "9">>

IsDigit(c) == c \in Range(Digits)

\* s.slice(a, b) of a string, a and b counted from 0
Slice(s, a, b) ==
  IF a >= Len(s) \/ b <= a THEN ""
  ELSE SubSeq(s, a + 1, IF b < Len(s) THEN b ELSE Len(s))

CharAt(s, i) == SubSeq(s, i, i)

RECURSIVE OnlyDigits(_)
\* text.replace(/\D/g, '')
OnlyDigits(text) ==
  IF Len(text) = 0 THEN ""
  ELSE (IF IsDigit(CharAt(text, 1)) THEN CharAt(text, 1) ELSE "")
       \o OnlyDigits(Slice(text, 1, Len(text)))

RECURSIVE ParseInt(_)
\* parseInt of a string of decimal digits
ParseInt(s) ==
  IF Len(s) = 0 THEN 0
  ELSE 10 * ParseInt(Slice(s, 0, Len(s) - 1))
       + (CHOOSE d \in 0..9 : Digits[d + 1] = CharAt(s, Len(s)))

\* s.padStart(2, '0')
PadStart(s) == IF Len(s) < 2 THEN "0" \o s ELSE s

IsLeap(y) == (y % 4 = 0 /\ y % 100 # 0) \/ y % 400 = 0

\* days from 1 January of year 0 to 1 January of year y
DaysBeforeYear(y) ==
  365 * y + ((y + 3) \div 4) - ((y + 99) \div 100) + ((y + 399) \div 400)

\* days from 1 January to the first day of month m (0 is January)
DaysBeforeMonth(y, m) ==
  <<0, 31, 59, 90, 120, 151, 181, 212, 243, 273, 304, 334>>[m + 1]
    + (IF m >= 2 /\ IsLeap(y) THEN 1 ELSE 0)

\* the day that new Date(year, monthIndex, day) falls on, as a day number:
\* a year from 0 to 99 means 1900 + year, and a month index or a day out of
\* range carries over into the neighbouring months and years
DateValue(year, monthIndex, day) ==
  LET y0 == IF year >= 0 /\ year <= 99 THEN 1900 + year ELSE year
      y == y0 + (monthIndex \div 12)
      m == monthIndex % 12
  IN  DaysBeforeYear(y) + DaysBeforeMonth(y, m) + day - 1

\* new Date(): the calendar fields of the present moment and the time of day
\* in milliseconds
Moment(year, monthIndex, date, ms) ==
  [year |-> year, month |-> monthIndex, date |-> date, ms |-> ms]

\* the moments at which the form is used
Moments == { Moment(2026, 10, 6, 0), Moment(2026, 10, 6, 36000000) }

(* --------------------------- AppointmentForm --------------------------- *)

\* the ids of the doctors the form lists
doctors == <<"1", "2", "3">>

RECURSIVE generateTimeSlotsLoop(_)
generateTimeSlotsLoop(hour) ==
  IF hour < 18
  THEN << PadStart(ToString(hour)) \o ":00",
          PadStart(ToString(hour)) \o ":30" >>
       \o generateTimeSlotsLoop(hour + 1)
  ELSE <<>>

\* generateTimeSlots of AppointmentForm
generateTimeSlots == generateTimeSlotsLoop(9)

\* isTimeSlotAvailable(time)
isTimeSlotAvailable(time) == TRUE

\* the texts the date field passes to onChangeText
DateTexts ==
  { "", "0611", "06112026", "07/11/2026", "31112026x", "07022027" }

\* the texts the description field passes to onChangeText
Descriptions == { "", "Retorno" }

\* the text handleDateChange puts in the date field
FormatDate(text) ==
  LET numbers == OnlyDigits(text)
  IN  IF Len(numbers) = 0 THEN ""
      ELSE IF Len(numbers) <= 2 THEN numbers
      ELSE IF Len(numbers) <= 4
        THEN Slice(numbers, 0, 2) \o "/" \o Slice(numbers, 2, Len(numbers))
      ELSE Slice(numbers, 0, 2) \o "/" \o Slice(numbers, 2, 4) \o "/"
           \o Slice(numbers, 4, 8)

\* inputDate.match(/^(\d{2})\/(\d{2})\/(\d{4})$/)
MatchesDate(inputDate) ==
  /\ Len(inputDate) = 10
  /\ \A i \in {1, 2, 4, 5, 7, 8, 9, 10} : IsDigit(CharAt(inputDate, i))
  /\ CharAt(inputDate, 3) = "/"
  /\ CharAt(inputDate, 6) = "/"

\* new Date(parseInt(year), parseInt(month) - 1, parseInt(day)) of a text
\* DD/MM/AAAA
ParseDate(inputDate) ==
  DateValue(ParseInt(Slice(inputDate, 6, 10)),
            ParseInt(Slice(inputDate, 3, 5)) - 1,
            ParseInt(Slice(inputDate, 0, 2)))

\* validateDate at the moment now: the date, at its midnight, is not before
\* now and not after now moved three months on
validateDate(inputDate, now) ==
  IF ~MatchesDate(inputDate) THEN FALSE
  ELSE LET date == ParseDate(inputDate)
           today == DateValue(now.year, now.month, now.date)
           maxDate == DateValue(now.year, now.month + 3, now.date)
       IN  /\ (date > today \/ (date = today /\ now.ms = 0))
           /\ date <= maxDate

NoAppointment == [doctorId |-> "", date |-> 0, time |-> "", description |-> ""]

\* what the last press of the submit button did: the alert it showed or the
\* appointment it passed to onSubmit
Pressed(alert, appointment) == [alert |-> alert, appointment |-> appointment]

NoPress == Pressed("", NoAppointment)

\* onPress of a DoctorCard: setSelectedDoctor(doctor.id)
SelectDoctor(id) ==
  /\ selectedDoctor' = id
  /\ UNCHANGED <<dateInput, selectedTime, description, presses,
                 onSubmitCalls, lastPress, authVars, bellVars>>

\* handleDateChange(text)
handleDateChange(text) ==
  /\ dateInput' = FormatDate(text)
  /\ UNCHANGED <<selectedDoctor, selectedTime, description, presses,
                 onSubmitCalls, lastPress, authVars, bellVars>>

\* onPress of a TimeSlotButton: isAvailable && setSelectedTime(time)
SelectTime(time) ==
  /\ selectedTime' = IF isTimeSlotAvailable(time) THEN time ELSE selectedTime
  /\ UNCHANGED <<selectedDoctor, dateInput, description, presses,
                 onSubmitCalls, lastPress, authVars, bellVars>>

\* onChangeText of the description field: setDescription
SetDescription(text) ==
  /\ description' = text
  /\ UNCHANGED <<selectedDoctor, dateInput, selectedTime, presses,
                 onSubmitCalls, lastPress, authVars, bellVars>>

\* handleSubmit without the validation of the date
handleSubmit_NoDateCheck(now) ==
  /\ presses < MaxPresses
  /\ presses' = presses + 1
  /\ IF selectedDoctor = "" \/ selectedTime = "" \/ description = ""
     THEN /\ lastPress' = Pressed("Por favor, preencha todos os campos",
                                  NoAppointment)
          /\ UNCHANGED onSubmitCalls
     ELSE /\ onSubmitCalls' = onSubmitCalls + 1
          /\ lastPress' =
               Pressed("", [doctorId |-> selectedDoctor,
                            date |-> IF MatchesDate(dateInput)
                                     THEN ParseDate(dateInput) ELSE 0,
                            time |-> selectedTime,
                            description |-> description])
  /\ UNCHANGED <<selectedDoctor, dateInput, selectedTime, description,
                 authVars, bellVars>>

\* handleSubmit, pressed at the moment now
handleSubmit(now) ==
  /\ presses < MaxPresses
  /\ presses' = presses + 1
  /\ IF selectedDoctor = "" \/ selectedTime = "" \/ description = ""
     THEN /\ lastPress' = Pressed("Por favor, preencha todos os campos",
                                  NoAppointment)
          /\ UNCHANGED onSubmitCalls
     ELSE IF ~validateDate(dateInput, now)
     THEN /\ lastPress' =
               Pressed("Por favor, insira uma data válida (DD/MM/AAAA)",
                       NoAppointment)
          /\ UNCHANGED onSubmitCalls
     ELSE /\ onSubmitCalls' = onSubmitCalls + 1
          /\ lastPress' =
               Pressed("", [doctorId |-> selectedDoctor,
                            date |-> ParseDate(dateInput),
                            time |-> selectedTime,
                            description |-> description])
  /\ UNCHANGED <<selectedDoctor, dateInput, selectedTime, description,
                 authVars, bellVars>>

(* ----------------------------- TimeSlotList ---------------------------- *)

RECURSIVE TimeSlotList_generateTimeSlotsLoop_Through18(_)
TimeSlotList_generateTimeSlotsLoop_Through18(hour) ==
  IF hour <= 18
  THEN << PadStart(ToString(hour)) \o ":00",
          PadStart(ToString(hour)) \o ":30" >>
       \o TimeSlotList_generateTimeSlotsLoop_Through18(hour + 1)
  ELSE <<>>

RECURSIVE TimeSlotList_generateTimeSlotsLoop(_)
TimeSlotList_generateTimeSlotsLoop(hour) ==
  IF hour < 18
  THEN << PadStart(ToString(hour)) \o ":00",
          PadStart(ToString(hour)) \o ":30" >>
       \o TimeSlotList_generateTimeSlotsLoop(hour + 1)
  ELSE <<>>

\* generateTimeSlots of TimeSlotList
TimeSlotList_generateTimeSlots == TimeSlotList_generateTimeSlotsLoop(9)

\* onPress of a TimeCard: onSelectTime(time)
TimeCardPress(time) ==
  /\ onSelectTimeArg' = time
  /\ UNCHANGED <<provided, hookResult, unreadCount, loads, serviceCalls,
                 pending, authVars, formVars>>

(* --------------------------- NotificationBell -------------------------- *)

\* the counts notificationService.getUnreadCount resolves with
UnreadCounts == {0, 1, 7, 99, 100, 250}

\* const { user } = useAuth() of the render the bell's callbacks come from
BellUser == Member(hookResult.returned, "user")

\* user?.id is truthy
HasUserId(u) == u # Null /\ u # Undefined /\ u.id # ""

\* the Badge elements the bell renders with their value: none, or one
Badge_From99(count) ==
  IF count > 0
  THEN << IF count >= 99 THEN "99+" ELSE ToString(count) >>
  ELSE <<>>

\* the Badge elements the bell renders with their value: none, or one
Badge(count) ==
  IF count > 0
  THEN << IF count > 99 THEN "99+" ELSE ToString(count) >>
  ELSE <<>>

\* the bell renders for the first time and calls useAuth
NotificationBellRender ==
  /\ hookResult = NotRendered
  /\ hookResult' = useAuth(provided, user, loading)
  /\ UNCHANGED <<provided, unreadCount, loads, serviceCalls, pending,
                 onSelectTimeArg, authVars, formVars>>

\* the provider's setUser takes effect and the provider renders again with
\* its consumers, which read the new value
ProviderRenders(u) ==
  /\ provided
  /\ hookResult # NotRendered
  /\ u # user
  /\ user' = u
  /\ hookResult' = useAuth(provided, u, loading)
  /\ UNCHANGED <<loading, store, restore, regUsers, calls, started, last,
                 boot, provided, unreadCount, loads, serviceCalls, pending,
                 onSelectTimeArg, formVars>>

\* loadUnreadCount up to its await, called by the mount effect, by the
\* interval or on focus: returns when there is no user id, calls
\* getUnreadCount(user.id) otherwise
loadUnreadCount ==
  /\ hookResult # NotRendered
  /\ hookResult.threw = NoErr
  /\ loads < MaxLoads
  /\ loads' = loads + 1
  /\ IF ~HasUserId(BellUser)
     THEN UNCHANGED <<serviceCalls, pending>>
     ELSE serviceCalls' = serviceCalls + 1 /\ pending' = pending + 1
  /\ UNCHANGED <<provided, hookResult, unreadCount, onSelectTimeArg,
                 authVars, formVars>>

\* getUnreadCount resolves: setUnreadCount(count)
GetUnreadCountOk(count) ==
  /\ pending > 0
  /\ pending' = pending - 1
  /\ unreadCount' = count
  /\ UNCHANGED <<provided, hookResult, loads, serviceCalls, onSelectTimeArg,
                 authVars, formVars>>

\* getUnreadCount rejects: the catch logs
GetUnreadCountFail ==
  /\ pending > 0
  /\ pending' = pending - 1
  /\ UNCHANGED <<provided, hookResult, unreadCount, loads, serviceCalls,
                 onSelectTimeArg, authVars, formVars>>

(* ---------------------- the components' start states ------------------- *)

\* the form as useState leaves it
FormMounted ==
  /\ selectedDoctor = ""
  /\ dateInput = ""
  /\ selectedTime = ""
  /\ description = ""
  /\ presses = 0
  /\ onSubmitCalls = 0
  /\ lastPress = NoPress

\* the bell and the time list before their first render
WidgetsUnrendered ==
  /\ hookResult = NotRendered
  /\ unreadCount = 0
  /\ loads = 0
  /\ serviceCalls = 0
  /\ pending = 0
  /\ onSelectTimeArg = ""

\* the provider at rest: restore finished, no call in flight, the session
\* of u (none when u is Null) in memory and in the store
ProviderAtRest(u) ==
  /\ user = u
  /\ loading = FALSE
  /\ store = IF u = Null THEN EmptyStore
             ELSE SetItem(SetItem(EmptyStore, STORAGE_KEYS.USER, Serialize(u)),
                          STORAGE_KEYS.TOKEN, "t1")
  /\ restore = "done"
  /\ regUsers = "done"
  /\ calls = EmptyBag
  /\ started = 0
  /\ last = NoLast
  /\ boot = 0

(* ------------------------------ Init ----------------------------------- *)

Init ==
  /\ user = Null
  /\ loading = TRUE
  /\ store = EmptyStore
  /\ restore = "init"
  /\ regUsers = "init"
  /\ calls = EmptyBag
  /\ started = 0
  /\ last = NoLast
  /\ boot = 0
  /\ provided = TRUE
  /\ FormMounted
  /\ WidgetsUnrendered

(* ------------------------- mount and restore --------------------------- *)

\* useEffect(() => { loadStoredUser(); loadRegisteredUsers(); }, [])
Mount ==
  /\ restore = "init"
  /\ restore' = "getStoredUser"
  /\ regUsers' = "pending"
  /\ UNCHANGED <<user, loading, store, calls, started, last, boot, ui>>

\* loadStoredUser: getStoredUser resolves; setUser when the value is truthy
LoadStoredUserOk ==
  /\ restore = "getStoredUser"
  /\ user' = IF GetStoredUser(store) # Null THEN GetStoredUser(store) ELSE user
  /\ restore' = "finally"
  /\ UNCHANGED <<loading, store, regUsers, calls, started, last, boot, ui>>

\* loadStoredUser: getStoredUser throws; the catch logs
LoadStoredUserFail ==
  /\ restore = "getStoredUser"
  /\ restore' = "caught"
  /\ UNCHANGED <<user, loading, store, regUsers, calls, started, last, boot,
                 ui>>

\* loadStoredUser waiting for loadRegisteredUsers before it clears loading
LoadStoredUserFinally_AfterRegisteredUsers ==
  /\ restore \in {"finally", "caught"}
  /\ regUsers \in {"done", "caught"}
  /\ loading' = FALSE
  /\ restore' = IF restore = "caught" THEN "doneFailed" ELSE "done"
  /\ UNCHANGED <<user, store, regUsers, calls, started, last, boot, ui>>

\* loadStoredUser with setLoading(false) at the end of the try block
LoadStoredUserFinally_InsideTry ==
  /\ restore = "finally"
  /\ loading' = FALSE
  /\ restore' = "done"
  /\ UNCHANGED <<user, store, regUsers, calls, started, last, boot, ui>>

\* loadStoredUser: finally { setLoading(false) }
LoadStoredUserFinally ==
  /\ restore \in {"finally", "caught"}
  /\ loading' = FALSE
  /\ restore' = IF restore = "caught" THEN "doneFailed" ELSE "done"
  /\ UNCHANGED <<user, store, regUsers, calls, started, last, boot, ui>>

\* loadRegisteredUsers: the service call resolves
LoadRegisteredUsersOk ==
  /\ regUsers = "pending"
  /\ regUsers' = "done"
  /\ UNCHANGED <<user, loading, store, restore, calls, started, last, boot, ui>>

\* loadRegisteredUsers: the service call throws; the catch logs
LoadRegisteredUsersFail ==
  /\ regUsers = "pending"
  /\ regUsers' = "caught"
  /\ UNCHANGED <<user, loading, store, restore, calls, started, last, boot, ui>>

(* ------------------------ signIn and register -------------------------- *)

\* signIn / register switching loading on while the gateway call runs
AuthCall_SetsLoading(op) ==
  /\ started < MaxCalls
  /\ ReachableSet(user, loading) # {}
  /\ calls' = calls (+) One(Call(op, "gateway", NoResp))
  /\ loading' = TRUE
  /\ started' = started + 1
  /\ UNCHANGED <<user, store, restore, regUsers, last, boot, ui>>

\* signIn / register up to the first await: the gateway call is issued
AuthCall(op) ==
  /\ CanCall
  /\ calls' = calls (+) One(Call(op, "gateway", NoResp))
  /\ UNCHANGED <<user, loading, store, restore, regUsers, last, boot, ui>>
  /\ started' = started + 1

\* the gateway resolves: setUser(response.user), then the write of the
\* USER entry is issued
AuthGatewayOk(r, resp) ==
  /\ r.pc = "gateway"
  /\ user' = resp.user
  /\ Advance(r, Call(r.op, "setUser", resp))
  /\ UNCHANGED <<loading, store, restore, regUsers, last, boot, started, ui>>

\* signIn / register clearing the session when the gateway rejects
AuthGatewayFail_ClearsUser(r, err) ==
  /\ r.pc = "gateway"
  /\ user' = Null
  /\ Settle(r, err, "rejected", err)
  /\ UNCHANGED <<loading, store, restore, regUsers, boot, started, ui>>

\* the gateway rejects: catch (error) { throw error }
AuthGatewayFail(r, err) ==
  /\ r.pc = "gateway"
  /\ Settle(r, err, "rejected", err)
  /\ UNCHANGED <<user, loading, store, restore, regUsers, boot, started, ui>>

\* setItem(USER, JSON.stringify(response.user)) resolves, then the write of
\* the TOKEN entry is issued
AuthSetUserOk(r) ==
  /\ r.pc = "setUser"
  /\ store' = SetItem(store, STORAGE_KEYS.USER, Serialize(r.resp.user))
  /\ Advance(r, Call(r.op, "setToken", r.resp))
  /\ UNCHANGED <<user, loading, restore, regUsers, last, boot, started, ui>>

\* setItem(USER, ...) rejects: catch (error) { throw error }
AuthSetUserFail(r, err) ==
  /\ r.pc = "setUser"
  /\ Settle(r, err, "rejected", err)
  /\ UNCHANGED <<user, loading, store, restore, regUsers, boot, started, ui>>

\* setItem(TOKEN, response.token) resolves and the function returns
AuthSetTokenOk(r) ==
  /\ r.pc = "setToken"
  /\ store' = SetItem(store, STORAGE_KEYS.TOKEN, r.resp.token)
  /\ Settle(r, NoErr, "resolved", NoErr)
  /\ UNCHANGED <<user, loading, restore, regUsers, boot, started, ui>>

\* signIn / register with a catch block that logs and does not rethrow
AuthSetTokenFail_OnlyLogs(r, err) ==
  /\ r.pc = "setToken"
  /\ Settle(r, err, "resolved", NoErr)
  /\ UNCHANGED <<user, loading, store, restore, regUsers, boot, started, ui>>

\* setItem(TOKEN, ...) rejects: catch (error) { throw error }
AuthSetTokenFail(r, err) ==
  /\ r.pc = "setToken"
  /\ Settle(r, err, "rejected", err)
  /\ UNCHANGED <<user, loading, store, restore, regUsers, boot, started, ui>>

\* the steps of a signIn or register call in flight
AuthStep(op) ==
  \E r \in InFlight :
    /\ r.op = op
    /\ \/ \E resp \in Responses : AuthGatewayOk(r, resp)
       \/ \E err \in AuthErrors : AuthGatewayFail(r, err)
       \/ AuthSetUserOk(r)
       \/ \E err \in StoreErrors : AuthSetUserFail(r, err)
       \/ AuthSetTokenOk(r)
       \/ \E err \in StoreErrors : AuthSetTokenFail(r, err)

signIn == AuthCall("signIn") \/ AuthStep("signIn")

register == AuthCall("register") \/ AuthStep("register")

(* ------------------------------ signOut -------------------------------- *)

\* signOut up to the first await: authService.signOut() is issued
SignOutCall ==
  /\ CanCall
  /\ calls' = calls (+) One(Call("signOut", "gateway", NoResp))
  /\ UNCHANGED <<user, loading, store, restore, regUsers, last, boot, ui>>
  /\ started' = started + 1

\* authService.signOut() resolves: setUser(null), then the removal of the
\* USER entry is issued
SignOutGatewayOk(r) ==
  /\ r.pc = "gateway"
  /\ user' = Null
  /\ Advance(r, Call(r.op, "removeUser", NoResp))
  /\ UNCHANGED <<loading, store, restore, regUsers, last, boot, started, ui>>

\* authService.signOut() rejects: the catch logs and the function returns
SignOutGatewayFail(r, err) ==
  /\ r.pc = "gateway"
  /\ Settle(r, err, "resolved", NoErr)
  /\ UNCHANGED <<user, loading, store, restore, regUsers, boot, started, ui>>

\* signOut blanking the USER entry with setItem instead of removing it
SignOutRemoveUserOk_WritesBlank(r) ==
  /\ r.pc = "removeUser"
  /\ store' = SetItem(store, STORAGE_KEYS.USER, <<>>)
  /\ Advance(r, Call(r.op, "removeToken", NoResp))
  /\ UNCHANGED <<user, loading, restore, regUsers, last, boot, started, ui>>

\* removeItem(USER) resolves, then the removal of the TOKEN entry is issued
SignOutRemoveUserOk(r) ==
  /\ r.pc = "removeUser"
  /\ store' = RemoveItem(store, STORAGE_KEYS.USER)
  /\ Advance(r, Call(r.op, "removeToken", NoResp))
  /\ UNCHANGED <<user, loading, restore, regUsers, last, boot, started, ui>>

\* signOut with a catch block that rethrows
SignOutRemoveUserFail_Rethrows(r, err) ==
  /\ r.pc = "removeUser"
  /\ Settle(r, err, "rejected", err)
  /\ UNCHANGED <<user, loading, store, restore, regUsers, boot, started, ui>>

\* removeItem(USER) rejects: the catch logs and the function returns
SignOutRemoveUserFail(r, err) ==
  /\ r.pc = "removeUser"
  /\ Settle(r, err, "resolved", NoErr)
  /\ UNCHANGED <<user, loading, store, restore, regUsers, boot, started, ui>>

\* removeItem(TOKEN) resolves and the function returns
SignOutRemoveTokenOk(r) ==
  /\ r.pc = "removeToken"
  /\ store' = RemoveItem(store, STORAGE_KEYS.TOKEN)
  /\ Settle(r, NoErr, "resolved", NoErr)
  /\ UNCHANGED <<user, loading, restore, regUsers, boot, started, ui>>

\* removeItem(TOKEN) rejects: the catch logs and the function returns
SignOutRemoveTokenFail(r, err) ==
  /\ r.pc = "removeToken"
  /\ Settle(r, err, "resolved", NoErr)
  /\ UNCHANGED <<user, loading, store, restore, regUsers, boot, started, ui>>

signOut ==
  \/ SignOutCall
  \/ \E r \in InFlight :
       /\ r.op = "signOut"
       /\ \/ SignOutGatewayOk(r)
          \/ \E err \in SignOutErrors : SignOutGatewayFail(r, err)
          \/ SignOutRemoveUserOk(r)
          \/ \E err \in StoreErrors : SignOutRemoveUserFail(r, err)
          \/ SignOutRemoveTokenOk(r)
          \/ \E err \in StoreErrors : SignOutRemoveTokenFail(r, err)

(* ----------------------------- updateUser ------------------------------ *)

\* updateUser merging the name of updatedUser into the current identity
\* instead of replacing it
UpdateUserCall_MergesName(updatedUser) ==
  /\ CanCall
  /\ user' = IF user = Null THEN updatedUser
             ELSE [user EXCEPT !.name = updatedUser.name]
  /\ calls' = calls (+) One(Call("updateUser", "setUser",
                                 [user |-> updatedUser, token |-> ""]))
  /\ UNCHANGED <<loading, store, restore, regUsers, last, boot, ui>>
  /\ started' = started + 1

\* updateUser up to its await: setUser(updatedUser), then the write of the
\* USER entry is issued
UpdateUserCall(updatedUser) ==
  /\ CanCall
  /\ user' = updatedUser
  /\ calls' = calls (+) One(Call("updateUser", "setUser",
                                 [user |-> updatedUser, token |-> ""]))
  /\ UNCHANGED <<loading, store, restore, regUsers, last, boot, ui>>
  /\ started' = started + 1

\* setItem(USER, JSON.stringify(updatedUser)) resolves
UpdateUserSetItemOk(r) ==
  /\ r.pc = "setUser"
  /\ store' = SetItem(store, STORAGE_KEYS.USER, Serialize(r.resp.user))
  /\ Settle(r, NoErr, "resolved", NoErr)
  /\ UNCHANGED <<user, loading, restore, regUsers, boot, started, ui>>

\* updateUser with a catch block that logs and does not rethrow
UpdateUserSetItemFail_OnlyLogs(r, err) ==
  /\ r.pc = "setUser"
  /\ Settle(r, err, "resolved", NoErr)
  /\ UNCHANGED <<user, loading, store, restore, regUsers, boot, started, ui>>

\* setItem(USER, ...) rejects: the catch logs and rethrows the error
UpdateUserSetItemFail(r, err) ==
  /\ r.pc = "setUser"
  /\ Settle(r, err, "rejected", err)
  /\ UNCHANGED <<user, loading, store, restore, regUsers, boot, started, ui>>

updateUser ==
  \/ \E updatedUser \in Identities : UpdateUserCall(updatedUser)
  \/ \E r \in InFlight :
       /\ r.op = "updateUser"
       /\ \/ UpdateUserSetItemOk(r)
          \/ \E err \in StoreErrors : UpdateUserSetItemFail(r, err)

(* --------------------------- process restart --------------------------- *)

\* the process ends and a new one starts: the provider's state is the
\* useState initial values again, calls in flight are gone, the store stays
Restart ==
  /\ boot < MaxBoots
  /\ boot' = boot + 1
  /\ user' = Null
  /\ loading' = TRUE
  /\ restore' = "init"
  /\ regUsers' = "init"
  /\ calls' = EmptyBag
  /\ last' = NoLast
  /\ UNCHANGED <<store, started, ui>>

(* ------------------------------ Next ----------------------------------- *)

Next ==
  \/ Mount
  \/ LoadStoredUserOk
  \/ LoadStoredUserFail
  \/ LoadStoredUserFinally
  \/ LoadRegisteredUsersOk
  \/ LoadRegisteredUsersFail
  \/ signIn
  \/ register
  \/ signOut
  \/ updateUser
  \/ Restart

Spec == Init /\ [][Next]_vars

FairSpec ==
  /\ Spec
  /\ WF_vars(Mount)
  /\ WF_vars(LoadStoredUserOk \/ LoadStoredUserFail)
  /\ WF_vars(LoadStoredUserFinally)

(* ----------------------- the components by themselves ------------------ *)

\* the form on the screen of a signed-in patient
FormInit ==
  /\ ProviderAtRest(mkUser("u2", "patient", "Bia"))
  /\ provided = TRUE
  /\ FormMounted
  /\ WidgetsUnrendered

FormNext ==
  \/ \E id \in Range(doctors) : SelectDoctor(id)
  \/ \E text \in DateTexts : handleDateChange(text)
  \/ \E time \in Range(generateTimeSlots) : SelectTime(time)
  \/ \E text \in Descriptions : SetDescription(text)
  \/ \E now \in Moments : handleSubmit(now)

FormSpec == FormInit /\ [][FormNext]_vars

\* the bell and the time list, rendered under a provider at rest or with no
\* provider above them
WidgetInit ==
  /\ provided \in BOOLEAN
  /\ \E u \in (IF provided THEN Identities \cup {Null} ELSE {Null}) :
       ProviderAtRest(u)
  /\ FormMounted
  /\ WidgetsUnrendered

WidgetNext ==
  \/ NotificationBellRender
  \/ \E u \in Identities \cup {Null} : ProviderRenders(u)
  \/ loadUnreadCount
  \/ \E count \in UnreadCounts : GetUnreadCountOk(count)
  \/ GetUnreadCountFail
  \/ \E time \in Range(TimeSlotList_generateTimeSlots) : TimeCardPress(time)

WidgetSpec == WidgetInit /\ [][WidgetNext]_vars

(* ------------------------------ claims --------------------------------- *)

\* a step inside one process (not the restart)
SameProcess == boot' = boot

\* the call r of the bag settles in this step
Settles(r) == SameProcess /\ r \in InFlight /\ calls' = calls (-) One(r)

\* C1: in every reachable state the persisted USER entry is present if and
\* only if the persisted TOKEN entry is present.
C1_EntriesPaired ==
  HasItem(store, STORAGE_KEYS.USER) <=> HasItem(store, STORAGE_KEYS.TOKEN)

\* C2: whenever a signOut call completes, the in-memory identity is absent
\* and both persisted entries are removed, whether the gateway's sign-out
\* succeeded or failed.
C2_SignOutAlwaysClears ==
  [][\A r \in InFlight :
       (r.op = "signOut" /\ Settles(r))
         => /\ user' = Null
            /\ ~HasItem(store', STORAGE_KEYS.USER)
            /\ ~HasItem(store', STORAGE_KEYS.TOKEN)]_vars

\* C3: with loading false, an identity whose role is none of admin, doctor,
\* patient gets exactly the unauthenticated set {Login, Register}.
C3_UnknownRoleFailsClosed ==
  (~loading /\ user # Null /\ user.role \notin KnownRoles)
    => ReachableSet(user, loading) = {"Login", "Register"}

\* C4: updateUser called while authenticated with an identity of another
\* role fails and leaves the in-memory identity and the persisted entries
\* unchanged.
C4_RoleChangeRejected ==
  [][\A u \in Identities :
       ( /\ SameProcess
         /\ user # Null
         /\ u.role # user.role
         /\ calls' = calls (+) One(Call("updateUser", "setUser",
                                        [user |-> u, token |-> ""])) )
         => user' = user /\ store' = store]_vars

\* C5: while loading is true the Access Router reports only Booting: the
\* reachable set is empty, whatever the in-memory identity is.
C5_BootingWhileLoading ==
  loading => /\ ReachableSet(user, loading) = {}
             /\ InitialDestination(user, loading) = "Booting"

\* C5 witness: the restore has set the identity and loading is still true
C5_Witness == loading /\ user # Null /\ restore = "finally"

\* C6: when the gateway rejects a signIn or register call, the caller
\* receives exactly the gateway's error and the session (in-memory identity
\* and both persisted entries) is as it was before the rejection.
C6_GatewayRejectionPropagates ==
  [][\A r \in InFlight :
       (r.op \in {"signIn", "register"} /\ r.pc = "gateway" /\ Settles(r))
         => /\ last'.outcome = "rejected"
            /\ last'.caught \in AuthErrors
            /\ last'.err = last'.caught
            /\ user' = user
            /\ store' = store]_vars

\* C6 witness: a session was active and stored when a later signIn or
\* register was rejected by the gateway
C6_Witness ==
  /\ last.op \in {"signIn", "register"}
  /\ last.at = "gateway"
  /\ last.outcome = "rejected"
  /\ user # Null
  /\ HasItem(store, STORAGE_KEYS.USER)
  /\ HasItem(store, STORAGE_KEYS.TOKEN)

\* the entries hold the pair that the response resp carries
Persisted(resp) ==
  /\ HasItem(store, STORAGE_KEYS.USER)
  /\ store[STORAGE_KEYS.USER] = Serialize(resp.user)
  /\ HasItem(store, STORAGE_KEYS.TOKEN)
  /\ store[STORAGE_KEYS.TOKEN] = resp.token

\* C7: when a signIn or register call, the only call made, completes
\* successfully, the in-memory identity is the gateway's, the USER entry its
\* serialization and the TOKEN entry the returned token; and nobody sees
\* the identity of a call in memory while its pair is not yet persisted.
C7_SessionSetAtomically ==
  /\ [][\A r \in InFlight :
          ( /\ r.op \in {"signIn", "register"}
            /\ Settles(r)
            /\ last'.outcome = "resolved"
            /\ started = 1 )
            => (user' = r.resp.user /\ Persisted(r.resp)')]_vars
  /\ [](\A r \in InFlight :
          ( /\ r.op \in {"signIn", "register"}
            /\ r.pc \in {"setUser", "setToken"}
            /\ user = r.resp.user )
            => Persisted(r.resp))

\* C8: a signOut call never propagates an error: it resolves for every
\* gateway and store failure.
C8_SignOutNeverRejects ==
  last.op = "signOut" => (last.outcome = "resolved" /\ last.err = NoErr)

\* C8 witness: a signOut ended in its catch block
C8_Witness ==
  /\ last.op = "signOut"
  /\ last.caught \in StoreErrors \cup SignOutErrors

\* the session is unauthenticated and nothing is stored
Unauthenticated == user = Null /\ store = EmptyStore /\ ~loading

\* a signOut call is made or moves in this step
SignOutSteps ==
  /\ SameProcess
  /\ \/ calls' = calls (+) One(Call("signOut", "gateway", NoResp))
     \/ \E r \in InFlight :
          /\ r.op = "signOut"
          /\ \/ calls' = calls (-) One(r)
             \/ \E pc \in {"removeUser", "removeToken"} :
                  calls' = (calls (-) One(r)) (+) One(Call("signOut", pc, NoResp))

\* C9: signOut on an already unauthenticated session does not fail and
\* leaves the identity, the loading flag and both entries as they were.
C9_SignOutIdempotent ==
  [][(Unauthenticated /\ SignOutSteps)
       => /\ user' = user
          /\ loading' = loading
          /\ store' = store
          /\ (last' # last => last'.outcome = "resolved")]_vars

\* C9 witness: the only call made, on a fresh signed-out process, was a
\* signOut and it ran to its end
C9_Witness ==
  /\ Unauthenticated
  /\ started = 1
  /\ boot = 0
  /\ last.op = "signOut"
  /\ last.at = "removeToken"
  /\ last.caught = NoErr

\* C10: the restore always finishes with loading false; the identity is
\* then the stored one when it loaded and absent when nothing was stored
\* or the load threw; and loading eventually becomes false.
C10_RestoreFinishes ==
  /\ [][(SameProcess /\ restore \in {"finally", "caught"} /\ restore' # restore)
          => /\ ~loading'
             /\ restore' \in {"done", "doneFailed"}
             /\ user' = (IF restore = "finally" THEN GetStoredUser(store')
                         ELSE Null)]_vars
  /\ [](restore \in {"done", "doneFailed"} => ~loading)
  /\ [](loading => <>(~loading))

\* C10 witness: the restore loaded a stored identity and finished
C10_Witness ==
  /\ restore = "done"
  /\ ~loading
  /\ calls = EmptyBag
  /\ last = NoLast
  /\ user # Null
  /\ user = GetStoredUser(store)

\* C11: once loading is false it does not become true again in the life of
\* the process, whatever signIn, register, signOut and updateUser calls run,
\* so the navigator does not return to Booting.
C11_LoadingNeverReturns ==
  [][(SameProcess /\ ~loading)
       => (~loading' /\ InitialDestination(user', loading') # "Booting")]_vars

\* C11 witness: calls ran to their end after the restore and loading is
\* still false
C11_Witness ==
  /\ ~loading
  /\ started = MaxCalls
  /\ calls = EmptyBag
  /\ last.outcome \in {"resolved", "rejected"}

\* the restore sets the identity in this step
RestoreSetsUser == restore = "getStoredUser" /\ restore' = "finally"

\* the gateway resolves a signIn or register call in this step and its
\* identity becomes the in-memory one
GatewaySetsUser ==
  \E r \in InFlight, resp \in Responses :
    /\ r.op \in {"signIn", "register"}
    /\ r.pc = "gateway"
    /\ calls' = (calls (-) One(r)) (+) One(Call(r.op, "setUser", resp))
    /\ user' = resp.user

\* C12: the in-memory identity goes from absent to present only by a
\* successful signIn or register, or by the restore while Booting; updateUser
\* with no active session does not authenticate.
C12_OnlySignInAuthenticates ==
  [][(SameProcess /\ user = Null /\ user' # Null)
       => (GatewaySetsUser \/ RestoreSetsUser)]_vars

\* C13: between two consecutive states with an identity present, its role
\* and id are the same: no step takes the session from one role (or id)
\* straight to another.
C13_RoleAndIdStable ==
  [][(SameProcess /\ user # Null /\ user' # Null)
       => (user'.role = user.role /\ user'.id = user.id)]_vars

\* the session and the store agree: nothing in memory and no USER entry, or
\* the USER entry is the serialization of the in-memory identity
MemoryMatchesStore ==
  IF user = Null THEN ~HasItem(store, STORAGE_KEYS.USER)
  ELSE /\ HasItem(store, STORAGE_KEYS.USER)
       /\ store[STORAGE_KEYS.USER] = Serialize(user)

\* C14: whenever no call is in flight and loading is false, the in-memory
\* identity and the Credential Store agree, also after store failures.
C14_MemoryAndStoreAgree ==
  (~loading /\ calls = EmptyBag) => MemoryMatchesStore

\* C15: when two signIn calls race, after both have completed the session
\* is that of the signIn that completed last: the in-memory identity, the
\* USER entry and the TOKEN entry all come from that one call.
C15_LastSignInWins ==
  [][\A r \in InFlight :
       ( /\ r.op = "signIn"
         /\ Settles(r)
         /\ calls = One(r)
         /\ started = 2
         /\ last.op = "signIn"
         /\ last.outcome = "resolved"
         /\ last'.outcome = "resolved" )
         => (user' = r.resp.user /\ Persisted(r.resp)')]_vars

\* C16: with loading false and no identity, the reachable set is exactly
\* {Login, Register} and the initial destination is Login.
C16_SignedOutRoutes ==
  (~loading /\ user = Null)
    => /\ ReachableSet(user, loading) = {"Login", "Register"}
       /\ InitialDestination(user, loading) = "Login"

\* C16 witness: a session was signed out and the navigator is back on the
\* public routes
C16_Witness ==
  /\ ~loading
  /\ user = Null
  /\ last.op = "signOut"
  /\ last.at = "removeToken"

\* the dashboard of each role the navigator tests for
Dashboard ==
  [admin |-> "AdminDashboard", doctor |-> "DoctorDashboard",
   patient |-> "PatientDashboard"]

C18_NoCallWhileLoading ==
  /\ [](loading => calls = EmptyBag)
  /\ [][(SameProcess /\ started' # started)
          => /\ ~loading
             /\ restore \in {"done", "doneFailed"}
             /\ ReachableSet(user, loading) # {}]_vars

\* C18 witness: in a restarted process the restore loaded the stored
\* identity and a call was made after it
C18_Witness ==
  /\ boot = 1
  /\ restore = "done"
  /\ GetStoredUser(store) # Null
  /\ calls # EmptyBag

\* the process restarts in this step
Restarts == boot' = boot + 1

\* C19: after a signOut has completed, a fresh process start restores
\* nothing, whatever the gateway's sign-out and the two removals did: at the
\* restart that follows the signOut no identity is stored, so the restore
\* ends with the identity absent and the unauthenticated set.
C19_NothingRestoredAfterSignOut ==
  [][(Restarts /\ last.op = "signOut" /\ calls = EmptyBag)
       => /\ GetStoredUser(store') = Null
          /\ ReachableSet(GetStoredUser(store'), FALSE) = {"Login", "Register"}]_vars

\* C20: after a signIn or register has resolved, with no signOut since, a
\* restart restores the identity that was active (same id and role); after
\* a resolved updateUser the restored identity is the updated one.
C20_SessionSurvivesRestart ==
  [][( /\ Restarts
       /\ calls = EmptyBag
       /\ user # Null
       /\ last.op \in {"signIn", "register", "updateUser"}
       /\ last.outcome = "resolved" )
       => /\ GetStoredUser(store') # Null
          /\ GetStoredUser(store').id = user.id
          /\ GetStoredUser(store').role = user.role
          /\ (last.op = "updateUser" => GetStoredUser(store') = user)]_vars

\* an updateUser(u) call is made in this step
UpdateUserCalled(u) ==
  /\ SameProcess
  /\ calls' = calls (+) One(Call("updateUser", "setUser",
                                 [user |-> u, token |-> ""]))

\* C21: when the Credential Store write of updateUser fails, the call
\* rejects to its caller with the store's error, and the identity that
\* updateUser set in memory before the write stays: the failure rolls
\* nothing back, so a call running alone ends with the new identity in
\* memory.
C21_UpdateUserFailureKeepsIdentity ==
  /\ [][\A u \in Identities : UpdateUserCalled(u) => user' = u]_vars
  /\ [][\A r \in InFlight :
          (r.op = "updateUser" /\ Settles(r) /\ last'.caught # NoErr)
            => /\ last'.outcome = "rejected"
               /\ last'.caught \in StoreErrors
               /\ last'.err = last'.caught
               /\ user' = user
               /\ store' = store
               /\ (started = 1 => user' = r.resp.user)]_vars

\* C21 witness: updateUser, the only call made, was rejected by the store's
\* failure; the new identity is in memory and is not the stored one
C21_Witness ==
  /\ last.op = "updateUser"
  /\ last.outcome = "rejected"
  /\ last.err \in StoreErrors
  /\ started = 1
  /\ user # Null
  /\ GetStoredUser(store) # user

\* C22: a signIn or register call whose write of the USER entry or of the
\* TOKEN entry fails rejects to its caller with the store's error; it
\* resolves only when both writes succeeded.
C22_StoreFailureRejectsSignIn ==
  (last.op \in {"signIn", "register"} /\ last.at \in {"setUser", "setToken"})
    => IF last.caught = NoErr
       THEN last.outcome = "resolved" /\ last.at = "setToken"
       ELSE /\ last.outcome = "rejected"
            /\ last.caught \in StoreErrors
            /\ last.err = last.caught

\* C22 witness: the USER entry was written and the write of the TOKEN entry
\* failed
C22_Witness ==
  /\ last.op \in {"signIn", "register"}
  /\ last.at = "setToken"
  /\ last.outcome = "rejected"
  /\ last.err \in StoreErrors
  /\ HasItem(store, STORAGE_KEYS.USER)
  /\ ~HasItem(store, STORAGE_KEYS.TOKEN)

\* C23: the in-memory identity is always absent or one whole Identity, and
\* every step that changes it sets it to absent, to the identity a gateway
\* response carries, to the stored identity the restore loaded or to the
\* identity passed to updateUser; it is never made of fields of two
\* identities.
C23_IdentityIsWhole ==
  /\ [](user = Null \/ user \in Identities)
  /\ [][(user' # user)
          => \/ user' = Null
             \/ GatewaySetsUser
             \/ (RestoreSetsUser /\ user' = GetStoredUser(store))
             \/ \E u \in Identities : UpdateUserCalled(u) /\ user' = u]_vars

\* C23 witness: in a restarted process the restore loaded a stored identity
\* and updateUser then replaced it by one that differs in its name only
C23_Witness ==
  /\ boot = 1
  /\ restore = "done"
  /\ last.op = "updateUser"
  /\ GetStoredUser(store) # Null
  /\ user # Null
  /\ user # GetStoredUser(store)
  /\ user.id = GetStoredUser(store).id
  /\ user.role = GetStoredUser(store).role

\* C24: useAuth called with no AuthProvider above the component throws the
\* error "useAuth must be used within an AuthProvider" and returns no
\* context value.
C24_UseAuthThrowsOutsideProvider ==
  (~provided /\ hookResult # NotRendered)
    => /\ hookResult.threw = "useAuth must be used within an AuthProvider"
       /\ hookResult.returned = Undefined

\* minutes from midnight of a slot text HH:MM
SlotMinutes(slot) ==
  60 * ParseInt(Slice(slot, 0, 2)) + ParseInt(Slice(slot, 3, 5))

FieldsFilled == selectedDoctor # "" /\ selectedTime # "" /\ description # ""

\* C26: a press of the submit button calls onSubmit at most once, and only
\* when a doctor, a time and a non-empty description are chosen and the date
\* field passes validateDate; when one of these fails, onSubmit is not
\* called and the fields of the form are unchanged.
C26_SubmitOnlyWhenValid ==
  [][(presses' # presses)
       => /\ onSubmitCalls' \in {onSubmitCalls, onSubmitCalls + 1}
          /\ (onSubmitCalls' = onSubmitCalls + 1)
               => /\ FieldsFilled
                  /\ selectedDoctor \in Range(doctors)
                  /\ selectedTime \in Range(generateTimeSlots)
                  /\ \E now \in Moments : validateDate(dateInput, now)
                  /\ lastPress'.alert = ""
          /\ ( \/ ~FieldsFilled
                \/ \A now \in Moments : ~validateDate(dateInput, now) )
               => /\ onSubmitCalls' = onSubmitCalls
                  /\ lastPress'.appointment = NoAppointment
          /\ UNCHANGED <<selectedDoctor, dateInput, selectedTime,
                         description>>]_vars

\* C26 witness: a first press was refused and a second one, with the form
\* completed, called onSubmit with the fields of the form
C26_Witness ==
  /\ presses = 2
  /\ onSubmitCalls = 1
  /\ lastPress.appointment # NoAppointment
  /\ lastPress.appointment.doctorId = selectedDoctor
  /\ lastPress.appointment.time = selectedTime
  /\ dateInput = "07/11/2026"

\* C27: the bell shows the badge exactly when the unread count is above 0,
\* with the text 99+ above 99 and the decimal count otherwise; and
\* loadUnreadCount with no user logged in calls the notification service
\* zero times and leaves the count unchanged.
C27_BadgeAndLoad ==
  /\ [](Badge(unreadCount) # <<>> <=> unreadCount > 0)
  /\ [](unreadCount > 99 => Badge(unreadCount) = <<"99+">>)
  /\ [](unreadCount \in 1..99 => Badge(unreadCount) = <<ToString(unreadCount)>>)
  /\ [][(loads' # loads /\ BellUser \in {Null, Undefined})
          => /\ serviceCalls' = serviceCalls
             /\ pending' = pending
             /\ unreadCount' = unreadCount]_vars

\* C27 witness: a count above 99 was loaded for a user, the user signed out
\* and the next loadUnreadCount asked the service nothing
C27_Witness ==
  /\ provided
  /\ BellUser = Null
  /\ unreadCount > 99
  /\ loads = 2
  /\ serviceCalls = 1
  /\ pending = 0

\* C28: whenever a signIn or register call rejects, the in-memory identity
\* is the one from before the call; for the first and only call of a
\* process that started with an empty store, that is no identity.
C28_RejectedSignInRestoresIdentity ==
  [][\A r \in InFlight :
       ( /\ r.op \in {"signIn", "register"}
         /\ Settles(r)
         /\ last'.outcome = "rejected"
         /\ started = 1
         /\ boot = 0 )
         => user' = Null]_vars

\* C29: a signIn or register that was in flight while signOut ran cannot
\* re-authenticate the session or write entries: when a signOut that met no
\* error completes with such a call still in flight, these two being the
\* only calls made, the identity and both entries are absent.
C29_SignOutWinsOverPendingSignIn ==
  [][\A r \in InFlight :
       ( /\ r.op = "signOut"
         /\ Settles(r)
         /\ last'.caught = NoErr
         /\ boot = 0
         /\ started = 2
         /\ \E q \in InFlight : q.op \in {"signIn", "register"} )
         => (user' = Null /\ store' = EmptyStore)]_vars

\* C30: loadStoredUser's last step sets loading false and can be taken
\* whether loadRegisteredUsers is pending, done or failed; a step of
\* loadRegisteredUsers changes neither the identity nor the loading flag, and
\* it ends done or with its error caught.
C30_LoadsAreIndependent ==
  /\ [](restore \in {"finally", "caught"} => ENABLED LoadStoredUserFinally)
  /\ [][(SameProcess /\ restore \in {"finally", "caught"} /\ restore' # restore)
          => (~loading' /\ regUsers' = regUsers)]_vars
  /\ [][(SameProcess /\ regUsers = "pending" /\ regUsers' # regUsers)
          => /\ regUsers' \in {"done", "caught"}
             /\ user' = user
             /\ loading' = loading
             /\ restore' = restore]_vars

\* C30 witness: the restore loaded an identity and set loading false while
\* loadRegisteredUsers was still pending
C30_Witness ==
  /\ restore = "done"
  /\ ~loading
  /\ user # Null
  /\ regUsers = "pending"

====
